---- MODULE Spec2Model ----
(***************************************************************************)
(* Model of the decision logic of app.py (GB & IRE Horse Racing            *)
(* Analytics): market classification (fetch_markets), favourite selection  *)
(* on the Upcoming Races page and winner resolution on the Finished Races  *)
(* page.  One script run renders one page from one snapshot of data; the   *)
(* snapshot is chosen nondeterministically from bounded sets.              *)
(***************************************************************************)
EXTENDS Integers, Sequences, FiniteSets, TLC

VARIABLES page,                   \* which part of the script has run
          markets, now,           \* fetch_markets: catalogue result, datetime.now
          upcoming, finished, err,\* fetch_markets: returned triple
          market_book,            \* Finished page: fetch_market_book result
          winner_selection_id,    \* Finished page: resolved winner
          runners,                \* Upcoming page: market_details.runners (ids)
          odds_book,              \* Upcoming page: fetch_market_book_with_odds
          favorite_selection_id,  \* Upcoming page: selected favourite
          bet,                    \* Bet Simulator: stake, bet type, odds inputs
          metrics,                \* Bet Simulator: computed figures
          runner, runner_info,    \* get_runner_info: argument and result
          non_runners             \* page: selection ids with is_non_runner set

vars == <<page, markets, now, upcoming, finished, err, market_book,
          winner_selection_id, runners, odds_book, favorite_selection_id,
          bet, metrics, runner, runner_info, non_runners>>

(* ------------------------------ bounds -------------------------------- *)
MaxMarkets == 3      \* markets in one catalogue result
MaxTime == 2         \* start instants and now range over 0..MaxTime
MaxBook == 3         \* book runners in a finished market's book
MaxSel == 3          \* selection ids of an upcoming market are 1..MaxSel
MaxOdds == 2         \* back prices range over 1..MaxOdds (price ticks)
MaxStake == 12       \* stakes entered: 0.01 .. MaxStake/100, and 10.00
MaxOddsInput == 112  \* odds entered: 1.01 .. MaxOddsInput/100, and samples

(* --------------------------- Python values ---------------------------- *)
\* Python None (also an attribute that hasattr() reports missing): ids,
\* positions, placements and prices are all >= 1, so 0 is free.
None == 0

\* BookRunner.status; "LOSER" stands for every tag that is neither ACTIVE
\* nor REMOVED (WINNER, LOSER, UNKNOWN, attribute missing).
Statuses == {"ACTIVE", "REMOVED", "LOSER"}

\* MarketBook.status; "OPEN" stands for every tag other than CLOSED.
MarketStatuses == {"CLOSED", "OPEN"}

\* runner.position: missing/None, 1 (winner), 2 (any other place)
Positions == {None, 1, 2}

\* runner.placement (legacy): missing/None or 1
Placements == {None, 1}

\* fetch_market_book returned (None, error): no book for the market
NoBook == [status |-> "OPEN", runners |-> << >>, present |-> FALSE]

(* --------------------- sequences of bounded length -------------------- *)
SeqUpTo(S, n) == UNION {[1..k -> S] : k \in 0..n}

Range(s) == {s[i] : i \in 1..Len(s)}

(* ============================ fetch_markets =========================== *)
\* A MarketSummary: market_id, market_start_time as an instant read in UTC,
\* and whether the datetime object carries a tzinfo.
MarketFields == [start : 0..MaxTime, aware : BOOLEAN]

\* list_market_catalogue result: market i of the list has market_id i
MarketLists ==
  {[i \in 1..Len(fs) |-> [market_id |-> i, start |-> fs[i].start,
                          aware |-> fs[i].aware]] :
     fs \in SeqUpTo(MarketFields, MaxMarkets)}

\* event_time: a naive start time gets tzinfo=UTC, so the instant is start
event_time(m) == m.start

\* the two lists built by the for loop, in input order
RECURSIVE SelectSeq2(_, _, _)
SelectSeq2(s, n, up) ==
  IF s = << >> THEN << >>
  ELSE IF (event_time(Head(s)) > n) = up
       THEN <<Head(s)>> \o SelectSeq2(Tail(s), n, up)
       ELSE SelectSeq2(Tail(s), n, up)

\* datetime "<" of two market_start_time keys raises TypeError when exactly
\* one of them is naive
Comparable(a, b) == a.aware = b.aware

\* list.sort compares keys pairwise; some comparison joins every two
\* elements, so sorting raises iff the list mixes naive and aware keys
SortRaises(s) == \E i, j \in 1..Len(s) : ~Comparable(s[i], s[j])

\* Insert moving the new element before equal keys (an unstable sort)
RECURSIVE InsertBeforeEqual(_, _)
InsertBeforeEqual(sorted, m) ==
  IF sorted = << >> THEN <<m>>
  ELSE IF m.start <= sorted[Len(sorted)].start
       THEN InsertBeforeEqual(SubSeq(sorted, 1, Len(sorted) - 1), m)
              \o <<sorted[Len(sorted)]>>
       ELSE sorted \o <<m>>

\* list.sort(key=market_start_time): stable insertion sort, ascending
RECURSIVE Insert(_, _)
Insert(sorted, m) ==
  IF sorted = << >> THEN <<m>>
  ELSE IF m.start < sorted[Len(sorted)].start
       THEN Insert(SubSeq(sorted, 1, Len(sorted) - 1), m)
              \o <<sorted[Len(sorted)]>>
       ELSE sorted \o <<m>>

RECURSIVE SortByStart(_)
SortByStart(s) ==
  IF s = << >> THEN << >>
  ELSE Insert(SortByStart(SubSeq(s, 1, Len(s) - 1)), s[Len(s)])

\* the (upcoming, finished, error) triple fetch_markets returns
fetch_markets(ms, n) ==
  LET up  == SelectSeq2(ms, n, TRUE)
      fin == SelectSeq2(ms, n, FALSE)
  IN IF SortRaises(up) \/ SortRaises(fin)
     THEN [upcoming |-> << >>, finished |-> << >>, err |-> TRUE]
     ELSE [upcoming |-> SortByStart(up), finished |-> SortByStart(fin),
           err |-> FALSE]

(* ======================= Finished page: winner ======================== *)
BookRunnerFields ==
  [status : Statuses, position : Positions, placement : Placements]

\* market_book.runners: runner i of the book has selection_id i
BookRunnerLists ==
  {[i \in 1..Len(fs) |-> [selection_id |-> i, status |-> fs[i].status,
                          position |-> fs[i].position,
                          placement |-> fs[i].placement]] :
     fs \in SeqUpTo(BookRunnerFields, MaxBook)}

MarketBooks ==
  {NoBook} \cup
  {[status |-> st, runners |-> rs, present |-> TRUE] :
     st \in MarketStatuses, rs \in BookRunnerLists}

\* the list comprehension active_runners (indices into the book)
active_runners(book) ==
  {i \in 1..Len(book.runners) :
     /\ book.runners[i].status = "ACTIVE"
     /\ ~(book.runners[i].position # None /\ book.runners[i].position # 1)}

\* WinnerStep with the placement branch taken only while no winner is set
WinnerStepPlacementIfUnset(book, book_runner, winner) ==
  IF book_runner.position = 1 THEN book_runner.selection_id
  ELSE IF book_runner.placement = 1 /\ winner = None
       THEN book_runner.selection_id
  ELSE IF /\ book.status = "CLOSED"
          /\ book_runner.status = "ACTIVE"
          /\ winner = None
          /\ Cardinality(active_runners(book)) = 1
       THEN book_runner.selection_id
  ELSE winner

\* WinnerStep without the len(active_runners) == 1 test
WinnerStepAnyActive(book, book_runner, winner) ==
  IF book_runner.position = 1 THEN book_runner.selection_id
  ELSE IF book_runner.placement = 1 THEN book_runner.selection_id
  ELSE IF /\ book.status = "CLOSED"
          /\ book_runner.status = "ACTIVE"
          /\ winner = None
       THEN book_runner.selection_id
  ELSE winner

\* one iteration of the for loop: the if / elif / elif chain
WinnerStep(book, book_runner, winner) ==
  IF book_runner.position = 1 THEN book_runner.selection_id
  ELSE IF book_runner.placement = 1 THEN book_runner.selection_id
  ELSE IF /\ book.status = "CLOSED"
          /\ book_runner.status = "ACTIVE"
          /\ winner = None
          /\ Cardinality(active_runners(book)) = 1
       THEN book_runner.selection_id
  ELSE winner

RECURSIVE WinnerScan(_, _, _)
WinnerScan(book, i, winner) ==
  IF i > Len(book.runners) THEN winner
  ELSE WinnerScan(book, i + 1, WinnerStep(book, book.runners[i], winner))

\* winner_selection_id after the loop; stays None without a book
ResolveWinner(book) ==
  IF book.present /\ book.runners # << >> THEN WinnerScan(book, 1, None)
  ELSE None

\* market_details.runners of a finished market, by selection id: every
\* book runner and one more runner the book holds no record of
FinishedRunnerIds(book) == 1..(Len(book.runners) + 1)

\* Finished page: book_runner_map.get(id) is a record with status REMOVED
\* (the map is filled by the winner loop, so only from a non-empty book)
is_non_runner_finished(book, id) ==
  /\ book.present
  /\ \E i \in 1..Len(book.runners) :
       /\ book.runners[i].selection_id = id
       /\ book.runners[i].status = "REMOVED"

(* ======================= Upcoming page: favourite ===================== *)
\* float('inf'), the initial lowest_odds; prices are >= 1
Infinity == -1

\* OddsLess with <= in place of <
OddsLessOrEqual(odds, lowest_odds) ==
  lowest_odds = Infinity \/ odds <= lowest_odds

\* odds < lowest_odds on floats, lowest_odds possibly inf
OddsLess(odds, lowest_odds) == lowest_odds = Infinity \/ odds < lowest_odds

\* no book runner for a selection id (book_runner_map.get gives None)
NoRecord == [present |-> FALSE, status |-> "LOSER", price |-> None]

\* a book runner of fetch_market_book_with_odds: status and best back price
\* (None when ex.available_to_back is missing or empty)
BookEntries ==
  {NoRecord} \cup
  {[present |-> TRUE, status |-> st, price |-> p] :
     st \in Statuses, p \in {None} \cup (1..MaxOdds)}

\* market_book.runners keyed by selection id (ids are unique in a market)
OddsBooks == [1..MaxSel -> BookEntries]

\* market_details.runners: a non-empty list of distinct selection ids
RunnerLists ==
  {s \in SeqUpTo(1..MaxSel, MaxSel) :
     /\ s # << >>
     /\ \A i, j \in 1..Len(s) : i # j => s[i] # s[j]}

\* odds_map.get(selection_id), odds_map built by fetch_market_book_with_odds
odds_map_get(book, id) == IF book[id].present THEN book[id].price ELSE None

\* is_non_runner that never flags a runner (the skip left out)
is_non_runner_never(book, id) == FALSE

\* is_non_runner that also flags a runner without a book record
is_non_runner_or_missing(book, id) ==
  ~book[id].present \/ book[id].status = "REMOVED"

\* book_runner and hasattr(book_runner, 'status') and status == 'REMOVED'
is_non_runner(book, id) == book[id].present /\ book[id].status = "REMOVED"

\* one iteration of the favourite loop; fav = [id, lowest_odds]
FavoriteStep(book, id, fav) ==
  IF ~is_non_runner(book, id)
  THEN LET odds == odds_map_get(book, id) IN
       IF odds # None /\ OddsLess(odds, fav.lowest_odds)
       THEN [id |-> id, lowest_odds |-> odds]
       ELSE fav
  ELSE fav

RECURSIVE FavoriteScan(_, _, _, _)
FavoriteScan(rs, book, i, fav) ==
  IF i > Len(rs) THEN fav
  ELSE FavoriteScan(rs, book, i + 1, FavoriteStep(book, rs[i], fav))

\* favorite_selection_id after the loop
SelectFavorite(rs, book) ==
  FavoriteScan(rs, book, 1, [id |-> None, lowest_odds |-> Infinity]).id

(* ============================ Bet Simulator =========================== *)
\* Python floats are modelled as exact rationals [num, den], den > 0, in
\* lowest terms; rounding happens only in the f-string formatting.
Abs(n) == IF n < 0 THEN -n ELSE n

RECURSIVE GCD(_, _)
GCD(a, b) == IF b = 0 THEN a ELSE GCD(b, a % b)

Rat(n, d) ==
  LET g == GCD(Abs(n), Abs(d))
      sgn == IF d < 0 THEN -1 ELSE 1
  IN [num |-> sgn * (n \div g), den |-> sgn * (d \div g)]

\* float +, -, *, / (the divisor is never zero here)
RAdd(a, b) == Rat(a.num * b.den + b.num * a.den, a.den * b.den)

RSub(a, b) == Rat(a.num * b.den - b.num * a.den, a.den * b.den)

RMul(a, b) == Rat(a.num * b.num, a.den * b.den)

RDiv(a, b) == Rat(a.num * b.den, a.den * b.num)

\* an int literal (1, 2, 100, place_factor) used in float arithmetic
RInt(n) == Rat(n, 1)

\* number_input(..., step=0.01, format="%.2f"): a value entered in hundredths
Hundredths(c) == Rat(c, 100)

\* st.number_input("Stake (£)", min_value=0.01, ...), in hundredths
MinStake == 1

\* st.number_input("Odds (Decimal)", min_value=1.01, ...), in hundredths
MinOddsInput == 101

\* stakes the widget can return (hundredths of a pound)
StakeInputs == (MinStake..MaxStake) \cup {1000}

\* odds the widget can return (hundredths)
OddsInputs == (MinOddsInput..MaxOddsInput) \cup {150, 350, 400, 600}

\* st.selectbox("Bet Type", ...)
BetTypes == {"Win", "Each Way", "Lay"}

\* the place_factor dictionary of the "Each Way Places" selectbox
PlaceFactors == {4, 5, 6}

\* WinBet with the profit taken on the full odds (the "- 1" left out)
WinBetFullOdds(stake, odds_input) ==
  LET profit == RMul(stake, odds_input)
      total_return == RAdd(stake, profit)
      roi == RMul(RDiv(profit, stake), RInt(100))
      implied_prob == RMul(RDiv(RInt(1), odds_input), RInt(100))
  IN [profit |-> profit, total_return |-> total_return, roi |-> roi,
      implied_prob |-> implied_prob]

\* bet_type == "Win"
WinBet(stake, odds_input) ==
  LET profit == RMul(stake, RSub(odds_input, RInt(1)))
      total_return == RAdd(stake, profit)
      roi == RMul(RDiv(profit, stake), RInt(100))
      implied_prob == RMul(RDiv(RInt(1), odds_input), RInt(100))
  IN [profit |-> profit, total_return |-> total_return, roi |-> roi,
      implied_prob |-> implied_prob]

\* EachWayBet with the whole stake put on the place leg
EachWayBetFullPlaceStake(stake, odds_input, place_factor) ==
  LET win_stake == RDiv(stake, RInt(2))
      place_stake == stake
      place_odds == RDiv(odds_input, RInt(place_factor))
      win_profit == RMul(win_stake, RSub(odds_input, RInt(1)))
      place_profit == RMul(place_stake, RSub(place_odds, RInt(1)))
      total_win_return == RAdd(win_stake, win_profit)
      total_place_return == RAdd(place_stake, place_profit)
  IN [win_stake |-> win_stake, place_stake |-> place_stake,
      place_odds |-> place_odds, win_profit |-> win_profit,
      place_profit |-> place_profit, total_win_return |-> total_win_return,
      total_place_return |-> total_place_return]

\* bet_type == "Each Way"
EachWayBet(stake, odds_input, place_factor) ==
  LET win_stake == RDiv(stake, RInt(2))
      place_stake == RDiv(stake, RInt(2))
      place_odds == RDiv(odds_input, RInt(place_factor))
      win_profit == RMul(win_stake, RSub(odds_input, RInt(1)))
      place_profit == RMul(place_stake, RSub(place_odds, RInt(1)))
      total_win_return == RAdd(win_stake, win_profit)
      total_place_return == RAdd(place_stake, place_profit)
  IN [win_stake |-> win_stake, place_stake |-> place_stake,
      place_odds |-> place_odds, win_profit |-> win_profit,
      place_profit |-> place_profit, total_win_return |-> total_win_return,
      total_place_return |-> total_place_return]

\* LayBet with the liability taken on the full odds
LayBetFullOdds(stake, odds_input) ==
  LET liability == RMul(stake, odds_input)
      profit_if_loses == stake
      implied_prob == RMul(RDiv(RInt(1), odds_input), RInt(100))
  IN [liability |-> liability, profit_if_loses |-> profit_if_loses,
      total_risk |-> liability, implied_prob |-> implied_prob]

\* bet_type == "Lay"; the "Total Risk" metric shows liability
LayBet(stake, odds_input) ==
  LET liability == RMul(stake, RSub(odds_input, RInt(1)))
      profit_if_loses == stake
      implied_prob == RMul(RDiv(RInt(1), odds_input), RInt(100))
  IN [liability |-> liability, profit_if_loses |-> profit_if_loses,
      total_risk |-> liability, implied_prob |-> implied_prob]

\* the if / elif / elif chain on bet_type
Calculate(b) ==
  IF b.bet_type = "Win"
  THEN WinBet(Hundredths(b.stake), Hundredths(b.odds_input))
  ELSE IF b.bet_type = "Each Way"
  THEN EachWayBet(Hundredths(b.stake), Hundredths(b.odds_input),
                  b.place_factor)
  ELSE LayBet(Hundredths(b.stake), Hundredths(b.odds_input))

\* the widget values of one run; place_factor is set only for Each Way
BetInputs ==
  {[bet_type |-> t, stake |-> st, odds_input |-> o, place_factor |-> pf] :
     t \in BetTypes \ {"Each Way"}, st \in StakeInputs, o \in OddsInputs,
     pf \in {None}}
  \cup
  {[bet_type |-> "Each Way", stake |-> st, odds_input |-> o,
    place_factor |-> pf] :
     st \in StakeInputs, o \in OddsInputs, pf \in PlaceFactors}

\* no bet entered / nothing computed yet
NoBet == [bet_type |-> "", stake |-> None, odds_input |-> None,
          place_factor |-> None]

NoMetrics == [computed |-> FALSE]

(* =========================== get_runner_info ========================== *)
\* the metadata keys get_runner_info reads
MetaKeys == {"CLOTH_NUMBER", "JOCKEY_NAME", "TRAINER_NAME"}

\* a key that is not in the metadata dict
Absent == "<absent>"

\* Python None where a string is expected
NoneStr == "<None>"

\* what the dict holds for a key: nothing, None, '' or a non-empty string
MetaEntries == {Absent, NoneStr, "", "7", "A. Rider"}

\* runner.metadata: None, or a dict ({} has every key absent)
Metadatas ==
  {[null |-> TRUE, items |-> [k \in MetaKeys |-> Absent]]} \cup
  {[null |-> FALSE, items |-> it] : it \in [MetaKeys -> MetaEntries]}

\* RunnerCatalogue objects handed to get_runner_info
RunnerDescriptions ==
  [runner_name : {"Test Horse", NoneStr}, selection_id : 1..MaxSel,
   metadata : Metadatas]

\* Python truthiness of a metadata value
Falsy(v) == v = NoneStr \/ v = ""

\* metadata = runner.metadata or {}: the items of the dict used
MetadataOrEmpty(md) ==
  IF md.null THEN [k \in MetaKeys |-> Absent] ELSE md.items

\* dict.get(key): None for an absent key
DictGet(items, key) == IF items[key] = Absent THEN NoneStr ELSE items[key]

\* metadata.get(key, "N/A"): the default only for an absent key
GetDefaultNA(items, key) ==
  IF items[key] = Absent THEN "N/A" ELSE items[key]

\* metadata.get(key) or "N/A"
GetOrNA(items, key) ==
  IF Falsy(DictGet(items, key)) THEN "N/A" ELSE DictGet(items, key)

get_runner_info(r) ==
  LET metadata == MetadataOrEmpty(r.metadata) IN
  [name |-> r.runner_name,
   cloth_number |-> GetOrNA(metadata, "CLOTH_NUMBER"),
   jockey |-> GetOrNA(metadata, "JOCKEY_NAME"),
   trainer |-> GetOrNA(metadata, "TRAINER_NAME"),
   selection_id |-> r.selection_id]

\* get_runner_info not called yet
NoRunner ==
  [runner_name |-> NoneStr, selection_id |-> None,
   metadata |-> [null |-> TRUE, items |-> [k \in MetaKeys |-> Absent]]]

NoRunnerInfo == [computed |-> FALSE]

(* ============================== actions =============================== *)
Init ==
  /\ page = "start"
  /\ markets = << >>
  /\ now = 0
  /\ upcoming = << >>
  /\ finished = << >>
  /\ err = FALSE
  /\ market_book = NoBook
  /\ winner_selection_id = None
  /\ runners = << >>
  /\ odds_book = [id \in 1..MaxSel |-> NoRecord]
  /\ favorite_selection_id = None
  /\ bet = NoBet
  /\ metrics = NoMetrics
  /\ runner = NoRunner
  /\ runner_info = NoRunnerInfo
  /\ non_runners = {}

FetchMarkets ==
  /\ page = "start"
  /\ \E ms \in MarketLists, n \in 0..MaxTime :
       LET r == fetch_markets(ms, n) IN
       /\ markets' = ms
       /\ now' = n
       /\ upcoming' = r.upcoming
       /\ finished' = r.finished
       /\ err' = r.err
  /\ page' = "fetched"
  /\ UNCHANGED <<market_book, winner_selection_id, runners, odds_book,
                 favorite_selection_id, bet, metrics, runner, runner_info,
                 non_runners>>

FinishedPage ==
  /\ page = "start"
  /\ \E book \in MarketBooks :
       /\ market_book' = book
       /\ winner_selection_id' = ResolveWinner(book)
       /\ non_runners' = {id \in FinishedRunnerIds(book) :
                            is_non_runner_finished(book, id)}
  /\ page' = "Finished"
  /\ UNCHANGED <<markets, now, upcoming, finished, err, runners, odds_book,
                 favorite_selection_id, bet, metrics, runner, runner_info>>

UpcomingPage ==
  /\ page = "start"
  /\ \E rs \in RunnerLists, book \in OddsBooks :
       /\ runners' = rs
       /\ odds_book' = book
       /\ favorite_selection_id' = SelectFavorite(rs, book)
       /\ non_runners' = {id \in Range(rs) : is_non_runner(book, id)}
  /\ page' = "Upcoming"
  /\ UNCHANGED <<markets, now, upcoming, finished, err, market_book,
                 winner_selection_id, bet, metrics, runner, runner_info>>

BetSimulator ==
  /\ page = "start"
  /\ \E b \in BetInputs :
       /\ bet' = b
       /\ metrics' = Calculate(b)
  /\ page' = "Bet Simulator"
  /\ UNCHANGED <<markets, now, upcoming, finished, err, market_book,
                 winner_selection_id, runners, odds_book,
                 favorite_selection_id, runner, runner_info, non_runners>>

GetRunnerInfo ==
  /\ page = "start"
  /\ \E r \in RunnerDescriptions :
       /\ runner' = r
       /\ runner_info' = get_runner_info(r)
  /\ page' = "runner_info"
  /\ UNCHANGED <<markets, now, upcoming, finished, err, market_book,
                 winner_selection_id, runners, odds_book,
                 favorite_selection_id, bet, metrics, non_runners>>

Next ==
  FetchMarkets \/ UpcomingPage \/ FinishedPage \/ BetSimulator
    \/ GetRunnerInfo

Spec == Init /\ [][Next]_vars

(* ======================= properties: Finished page ==================== *)
BookRunners == market_book.runners

BookIdx == 1..Len(BookRunners)

HasPosition1 == \E i \in BookIdx : BookRunners[i].position = 1

HasPlacement1 == \E i \in BookIdx : BookRunners[i].placement = 1

\* ACTIVE book runners without a non-1, non-null position value
LoneCandidates ==
  {i \in BookIdx : /\ BookRunners[i].status = "ACTIVE"
                   /\ BookRunners[i].position \in {None, 1}}

\* C1: winner resolution never yields the selection id of a book runner
\* whose status is REMOVED, whatever its position or placement value.
C1_WinnerNeverRemoved ==
  page = "Finished" =>
    \A i \in BookIdx :
      BookRunners[i].status = "REMOVED" =>
        winner_selection_id # BookRunners[i].selection_id

\* C2: when one book runner has position = 1 and a different one has
\* placement = 1 (and no position = 1), the winner is a position-based
\* runner, in every order of the two.
C2_PositionBeatsPlacement ==
  (/\ page = "Finished"
   /\ \E i, j \in BookIdx : /\ i # j
                            /\ BookRunners[i].position = 1
                            /\ BookRunners[j].placement = 1
                            /\ BookRunners[j].position # 1)
  => \E i \in BookIdx : /\ BookRunners[i].position = 1
                        /\ winner_selection_id = BookRunners[i].selection_id

\* C3: market CLOSED, no position = 1, no placement = 1 and exactly one
\* ACTIVE runner without a non-1 non-null position: that runner, and no
\* other, is the winner.
C3_LoneActiveRunnerWins ==
  (/\ page = "Finished"
   /\ market_book.status = "CLOSED"
   /\ ~HasPosition1
   /\ ~HasPlacement1
   /\ Cardinality(LoneCandidates) = 1)
  => \A i \in LoneCandidates :
       winner_selection_id = BookRunners[i].selection_id

\* C4: no position = 1 and exactly one book runner with placement = 1:
\* that runner is the winner, for every market status and book order.
C4_PlacementFallback ==
  (/\ page = "Finished"
   /\ ~HasPosition1
   /\ Cardinality({i \in BookIdx : BookRunners[i].placement = 1}) = 1)
  => \A i \in BookIdx :
       BookRunners[i].placement = 1 =>
         winner_selection_id = BookRunners[i].selection_id

\* C4 witness: a CLOSED market whose lone ACTIVE runner is scanned before
\* the placement runner, and the placement runner is the winner.
C4_Witness ==
  /\ page = "Finished"
  /\ market_book.status = "CLOSED"
  /\ ~HasPosition1
  /\ \E i, j \in BookIdx :
       /\ i < j
       /\ LoneCandidates = {i}
       /\ BookRunners[i].placement # 1
       /\ {k \in BookIdx : BookRunners[k].placement = 1} = {j}
       /\ winner_selection_id = BookRunners[j].selection_id

\* C5: the result is none when no rule matches: no position = 1, no
\* placement = 1, and the market is not CLOSED or the ACTIVE runners
\* without a non-1 non-null position are not exactly one (also with an
\* absent or empty book).
C5_NoneWhenNoRuleMatches ==
  (/\ page = "Finished"
   /\ ~HasPosition1
   /\ ~HasPlacement1
   /\ \/ market_book.status # "CLOSED"
      \/ Cardinality(LoneCandidates) # 1)
  => winner_selection_id = None

\* C5 witness: a CLOSED market with more than one ACTIVE runner and no
\* position or placement data, resolved to none.
C5_Witness ==
  /\ page = "Finished"
  /\ market_book.status = "CLOSED"
  /\ ~HasPosition1
  /\ ~HasPlacement1
  /\ Cardinality(LoneCandidates) > 1
  /\ \A i \in BookIdx : BookRunners[i].position = None
  /\ winner_selection_id = None

(* ======================= properties: Upcoming page ==================== *)
RunnerIdx == 1..Len(runners)

\* the runner at index i has a book record with status REMOVED
Removed(i) ==
  odds_book[runners[i]].present /\ odds_book[runners[i]].status = "REMOVED"

\* the odds the runner at index i carries in the book (None without any)
OddsOf(i) ==
  IF odds_book[runners[i]].present THEN odds_book[runners[i]].price ELSE None

\* runners that are not non-runners and have an odds value
Eligible == {i \in RunnerIdx : ~Removed(i) /\ OddsOf(i) # None}

\* C6: the favourite is never a runner whose book status is REMOVED, also
\* when that runner has the lowest odds in the market.
C6_FavoriteNeverNonRunner ==
  page = "Upcoming" =>
    \A i \in RunnerIdx : Removed(i) => favorite_selection_id # runners[i]

\* C6 witness: a REMOVED runner has odds strictly below every other
\* runner's, and another runner is the favourite.
C6_Witness ==
  /\ page = "Upcoming"
  /\ \E i \in RunnerIdx :
       /\ Removed(i)
       /\ OddsOf(i) # None
       /\ \A j \in Eligible : OddsOf(i) < OddsOf(j)
       /\ favorite_selection_id # None
       /\ favorite_selection_id # runners[i]

\* C7: the favourite is the first runner in list order that has the minimum
\* odds among the runners that are not non-runners and have odds; it is
\* none exactly when there is no such runner.
C7_FavoriteIsFirstMinimum ==
  page = "Upcoming" =>
    /\ (favorite_selection_id = None) <=> (Eligible = {})
    /\ \A i \in Eligible :
         (/\ \A j \in Eligible : OddsOf(i) <= OddsOf(j)
          /\ \A j \in Eligible : OddsOf(j) = OddsOf(i) => i <= j)
         => favorite_selection_id = runners[i]

\* C7 witness: two eligible runners share the minimum odds, a REMOVED
\* runner with odds is present, and the earlier of the two is favourite.
C7_Witness ==
  /\ page = "Upcoming"
  /\ \E i, j \in Eligible :
       /\ i < j
       /\ OddsOf(i) = OddsOf(j)
       /\ \A k \in Eligible : OddsOf(i) <= OddsOf(k)
       /\ \E k \in Eligible : OddsOf(i) < OddsOf(k)
       /\ runners[i] > runners[j]
       /\ favorite_selection_id = runners[i]

(* ======================= properties: fetch_markets ==================== *)
\* number of times market m occurs in list s
Occurrences(s, m) == Cardinality({i \in 1..Len(s) : s[i] = m})

\* C8: every input market is in exactly one of the two output lists, no
\* other market is in them, and a market is in upcoming iff its start
\* instant is strictly later than now.
C8_ClassifyPartitions ==
  page = "fetched" =>
    /\ \A i \in 1..Len(markets) :
         /\ Occurrences(upcoming, markets[i])
              + Occurrences(finished, markets[i]) = 1
         /\ Occurrences(upcoming, markets[i]) = 1 <=> markets[i].start > now
    /\ Range(upcoming) \cup Range(finished) \subseteq Range(markets)

SortedStable(s) ==
  \A i, j \in 1..Len(s) :
    i < j => \/ s[i].start < s[j].start
             \/ s[i].start = s[j].start /\ s[i].market_id < s[j].market_id

\* C9: both output lists are sorted ascending by start instant, and markets
\* with equal start instants keep their relative input order.
C9_SortedAndStable ==
  page = "fetched" => SortedStable(upcoming) /\ SortedStable(finished)

\* C9 witness: an output list of three markets that were not in start order
\* in the input, two of them with equal start instants.
C9_Witness ==
  /\ page = "fetched"
  /\ ~err
  /\ Len(upcoming) = 3
  /\ upcoming # markets
  /\ \E i, j \in 1..3 : i # j /\ upcoming[i].start = upcoming[j].start
  /\ \E i, j \in 1..3 : upcoming[i].start # upcoming[j].start


(* ======================= properties: Bet Simulator ==================== *)
\* the fraction n / d (d > 0) in lowest terms
Reduced(n, d) ==
  LET g == GCD(Abs(n), d) IN [num |-> n \div g, den |-> d \div g]

\* the rational r is the fraction n / d
IsFraction(r, n, d) == r = Reduced(n, d)

\* the fraction r is the sum of the fractions a and b
IsSum(r, a, b) ==
  Reduced(r.num, r.den)
    = Reduced(a.num * b.den + b.num * a.den, a.den * b.den)

\* C11: Win bet, stake s/100 > 0 and odds o/100 >= 1.01: profit =
\* stake * (odds - 1), totalReturn = stake + profit = stake * odds,
\* roi% = (odds - 1) * 100 whatever the stake, impliedProbability% =
\* 100 / odds; stake 10 at odds 3.5 gives 25, 35 and 250%.
C11_WinBet ==
  (page = "Bet Simulator" /\ bet.bet_type = "Win") =>
    LET s == bet.stake
        o == bet.odds_input
    IN /\ s > 0 /\ o >= 101
       /\ IsFraction(metrics.profit, s * (o - 100), 10000)
       /\ IsSum(metrics.total_return, [num |-> s, den |-> 100],
                metrics.profit)
       /\ IsFraction(metrics.total_return, s * o, 10000)
       /\ IsFraction(metrics.roi, o - 100, 1)
       /\ IsFraction(metrics.implied_prob, 10000, o)
       /\ (s = 1000 /\ o = 350) =>
            /\ metrics.profit = [num |-> 25, den |-> 1]
            /\ metrics.total_return = [num |-> 35, den |-> 1]
            /\ metrics.roi = [num |-> 250, den |-> 1]
            /\ metrics.implied_prob = [num |-> 200, den |-> 7]

\* C11 witness: the Win bet of stake 10.00 at odds 3.50 has been computed
\* with profit 25.
C11_Witness ==
  /\ page = "Bet Simulator"
  /\ bet.bet_type = "Win"
  /\ bet.stake = 1000
  /\ bet.odds_input = 350
  /\ metrics.profit = [num |-> 25, den |-> 1]

\* C12: Each-Way bet, divisor pf in {4, 5, 6}: winStake = placeStake =
\* stake / 2 (summing to the stake), placeOdds = odds / pf, winProfit =
\* winStake * (odds - 1), placeProfit = placeStake * (placeOdds - 1),
\* totalWinReturn = winStake + winProfit, totalPlaceReturn = placeStake +
\* placeProfit; the figures hold the two legs and no combined total.
C12_EachWayBet ==
  (page = "Bet Simulator" /\ bet.bet_type = "Each Way") =>
    LET s == bet.stake
        o == bet.odds_input
        pf == bet.place_factor
    IN /\ s > 0 /\ o >= 101 /\ pf \in {4, 5, 6}
       /\ IsFraction(metrics.win_stake, s, 200)
       /\ metrics.place_stake = metrics.win_stake
       /\ IsSum([num |-> s, den |-> 100], metrics.win_stake,
                metrics.place_stake)
       /\ IsFraction(metrics.place_odds, o, 100 * pf)
       /\ IsFraction(metrics.win_profit, s * (o - 100), 20000)
       /\ IsFraction(metrics.place_profit, s * (o - 100 * pf), 20000 * pf)
       /\ IsSum(metrics.total_win_return, metrics.win_stake,
                metrics.win_profit)
       /\ IsSum(metrics.total_place_return, metrics.place_stake,
                metrics.place_profit)
       /\ DOMAIN metrics = {"win_stake", "place_stake", "place_odds",
                            "win_profit", "place_profit",
                            "total_win_return", "total_place_return"}
       /\ (s = 1000 /\ o = 600 /\ pf = 4) =>
            /\ metrics.win_stake = [num |-> 5, den |-> 1]
            /\ metrics.place_odds = [num |-> 3, den |-> 2]
            /\ metrics.win_profit = [num |-> 25, den |-> 1]
            /\ metrics.place_profit = [num |-> 5, den |-> 2]
            /\ metrics.total_win_return = [num |-> 30, den |-> 1]
            /\ metrics.total_place_return = [num |-> 15, den |-> 2]

\* C12 witness: the Each-Way bet of stake 10.00 at odds 6.00, divisor 4,
\* has been computed with a place return of 7.5.
C12_Witness ==
  /\ page = "Bet Simulator"
  /\ bet.bet_type = "Each Way"
  /\ bet.stake = 1000
  /\ bet.odds_input = 600
  /\ bet.place_factor = 4
  /\ metrics.total_place_return = [num |-> 15, den |-> 2]

\* C13: Lay bet: liability = stake * (odds - 1), profitIfLoses = stake,
\* totalRisk = liability, impliedProbability% = 100 / odds; stake 10 at
\* odds 4 gives 30, 10, 30 and 25%.
C13_LayBet ==
  (page = "Bet Simulator" /\ bet.bet_type = "Lay") =>
    LET s == bet.stake
        o == bet.odds_input
    IN /\ s > 0 /\ o >= 101
       /\ IsFraction(metrics.liability, s * (o - 100), 10000)
       /\ IsFraction(metrics.profit_if_loses, s, 100)
       /\ metrics.total_risk = metrics.liability
       /\ IsFraction(metrics.implied_prob, 10000, o)
       /\ (s = 1000 /\ o = 400) =>
            /\ metrics.liability = [num |-> 30, den |-> 1]
            /\ metrics.profit_if_loses = [num |-> 10, den |-> 1]
            /\ metrics.total_risk = [num |-> 30, den |-> 1]
            /\ metrics.implied_prob = [num |-> 25, den |-> 1]

\* C13 witness: the Lay bet of stake 10.00 at odds 4.00 has been computed
\* with liability 30.
C13_Witness ==
  /\ page = "Bet Simulator"
  /\ bet.bet_type = "Lay"
  /\ bet.stake = 1000
  /\ bet.odds_input = 400
  /\ metrics.liability = [num |-> 30, den |-> 1]


(* ====================== properties: get_runner_info =================== *)
\* the metadata value of key k when the metadata is a dict that holds a
\* non-empty value for k, the sentinel "N/A" otherwise
ValueOrSentinel(k) ==
  IF /\ ~runner.metadata.null
     /\ runner.metadata.items[k] \notin {Absent, NoneStr, ""}
  THEN runner.metadata.items[k]
  ELSE "N/A"

\* C14: get_runner_info returns a complete record for every runner, also
\* with null or empty metadata or an absent or empty value: name and
\* selection id are the input's, and cloth_number, jockey and trainer are
\* the metadata value when present and non-empty, "N/A" otherwise.
C14_RunnerInfoTotal ==
  page = "runner_info" =>
    /\ DOMAIN runner_info
         = {"name", "cloth_number", "jockey", "trainer", "selection_id"}
    /\ runner_info.name = runner.runner_name
    /\ runner_info.selection_id = runner.selection_id
    /\ runner_info.cloth_number = ValueOrSentinel("CLOTH_NUMBER")
    /\ runner_info.jockey = ValueOrSentinel("JOCKEY_NAME")
    /\ runner_info.trainer = ValueOrSentinel("TRAINER_NAME")

\* C14 witness: a runner whose metadata holds a cloth number, an empty
\* jockey name and no trainer key has been projected.
C14_Witness ==
  /\ page = "runner_info"
  /\ ~runner.metadata.null
  /\ runner.metadata.items["CLOTH_NUMBER"] = "7"
  /\ runner.metadata.items["JOCKEY_NAME"] = ""
  /\ runner.metadata.items["TRAINER_NAME"] = Absent
  /\ runner_info.cloth_number = "7"
  /\ runner_info.jockey = "N/A"
  /\ runner_info.trainer = "N/A"


(* ======================= properties: non-runners ====================== *)
\* C15: a runner is flagged non-runner iff a book-runner record exists for
\* its selection id and that record's status is REMOVED; a runner without
\* a record, or with any other status, is not flagged, on the Upcoming and
\* on the Finished page.
C15_NonRunnerIffRemoved ==
  /\ page = "Upcoming" =>
       /\ non_runners \subseteq Range(runners)
       /\ \A i \in RunnerIdx :
            runners[i] \in non_runners
              <=> /\ odds_book[runners[i]].present
                  /\ odds_book[runners[i]].status = "REMOVED"
  /\ page = "Finished" =>
       \A id \in 1..(Len(BookRunners) + 1) :
         id \in non_runners
           <=> \E i \in BookIdx : /\ BookRunners[i].selection_id = id
                                  /\ BookRunners[i].status = "REMOVED"

\* C15 witness: an upcoming market with a REMOVED runner that is flagged,
\* and an ACTIVE runner and a runner without book record that are not.
C15_Witness ==
  /\ page = "Upcoming"
  /\ \E i, j, k \in RunnerIdx :
       /\ odds_book[runners[i]].present
       /\ odds_book[runners[i]].status = "REMOVED"
       /\ runners[i] \in non_runners
       /\ odds_book[runners[j]].present
       /\ odds_book[runners[j]].status = "ACTIVE"
       /\ runners[j] \notin non_runners
       /\ ~odds_book[runners[k]].present
       /\ runners[k] \notin non_runners


(* ================== properties: timezone-less start times ============= *)
Ascending(s) == \A i, j \in 1..Len(s) : i < j => s[i].start <= s[j].start

\* C16: for an input mixing timezone-less and timezone-aware start
\* instants, classification does not fail: every input market is in one of
\* the two lists and each list is ascending by the start instant read as
\* UTC.
C16_MixedTimezonesClassified ==
  (/\ page = "fetched"
   /\ \E i, j \in 1..Len(markets) : markets[i].aware # markets[j].aware)
  => /\ ~err
     /\ \A i \in 1..Len(markets) :
          markets[i] \in Range(upcoming) \cup Range(finished)
     /\ Ascending(upcoming)
     /\ Ascending(finished)

(* ==================== properties: first position wins ================= *)
\* book runners with position = 1
PositionWinners == {i \in BookIdx : BookRunners[i].position = 1}

\* C17: when more than one book runner has position = 1, the winner is the
\* first of them in book order; no runner scanned later replaces it.
C17_FirstPositionWins ==
  (page = "Finished" /\ Cardinality(PositionWinners) > 1)
  => \E i \in PositionWinners :
       /\ \A j \in PositionWinners : i <= j
       /\ winner_selection_id = BookRunners[i].selection_id

====
